---- MODULE Spec2Model ----
(***************************************************************************)
(* Model of src/prove.rs: the Prover8_56 data structure (construction,     *)
(* cipher selection, the batched scan `prove`) and the orchestrator        *)
(* generate_proof with its worker threads and shared accumulator.          *)
(***************************************************************************)
EXTENDS Integers, Sequences, FiniteSets, TLC

VARIABLES
    powFail,     \* PoW oracle: the nonce groups for which it returns an error
    powSeed,     \* PoW oracle: selects the pow values it returns
    pc,          \* position of the caller of the Prover8_56 API
    nonces,      \* the nonce range <<start, end>> last given to Prover8_56::new
    powCalls,    \* the nonce groups the oracle was invoked with by the last new
    prover,      \* the Prover8_56 built by the last new, or NoProver
    proveArgs,   \* <<batch, index>> of the last prove call
    emitted,     \* the consume calls of the last prove call, in call order
    gp,          \* state of generate_proof (orchestrator, workers, accumulator)
    params,      \* <<challenge, ProvingParams>> last given to Prover8_56::new
    result,      \* what the last prove call returned: None or Some((nonce, list))
    args,        \* the arguments of ProvingParams::new or Proof::new
    ret          \* what ProvingParams::new or Proof::new returned for args

vars == <<powFail, powSeed, pc, nonces, powCalls, prover, proveArgs, emitted, gp,
          params, result, args, ret>>

----------------------------------------------------------------------------
(* Program constants *)

LABEL_SIZE == 16
BLOCK_SIZE == 16
AES_BATCH == 8
CHUNK_SIZE == BLOCK_SIZE * AES_BATCH
NONCES_PER_AES == 16

\* Word widths. TLC's integers are 32-bit, so a u32 nonce is modelled as a
\* NonceBits-bit word and the 56 low bits of a difficulty as LsbBits bits;
\* wrap-around and masking are kept, at the modelled width.
NonceBits == 16
LsbBits == 12

U32 == 2 ^ NonceBits
LSB_MASK == 2 ^ LsbBits - 1
U64 == 256 * (2 ^ LsbBits)

NoProver == [none |-> TRUE]
PoWNotFound == "PoWNotFound"

Max(a, b) == IF a >= b THEN a ELSE b

----------------------------------------------------------------------------
(* Helper arithmetic *)

\* Variant: the offset divided by, instead of reduced modulo, per_aes.
calc_nonce_div(nonce_group, per_aes, offset) ==
    nonce_group * per_aes + (offset \div per_aes)

\* Variant: the offset is not reduced modulo per_aes.
calc_nonce_nomod(nonce_group, per_aes, offset) ==
    nonce_group * per_aes + offset

calc_nonce(nonce_group, per_aes, offset) ==
    nonce_group * per_aes + (offset % per_aes)

calc_nonce_group(nonce, per_aes) == nonce \div per_aes

\* Variant: one group more than the range holds.
nonce_group_range_extra(start, end, per_aes) ==
    <<start \div per_aes, (end \div per_aes) + 1>>

\* u32 arithmetic: nonces.end + per_aes - 1 is computed in 32 bits.
nonce_group_range(start, end, per_aes) ==
    LET start_group == start \div per_aes
        end_group == Max(start_group + 1, ((end + per_aes - 1) % U32) \div per_aes)
    IN  <<start_group, end_group>>

\* Variant: a mask one bit short.
split_difficulty_short(difficulty) ==
    <<(difficulty \div (2 ^ LsbBits)) % 256, difficulty % (2 ^ (LsbBits - 1))>>

split_difficulty(difficulty) ==
    <<(difficulty \div (2 ^ LsbBits)) % 256, difficulty % (LSB_MASK + 1)>>

----------------------------------------------------------------------------
(* External collaborators: the PoW oracle and the AES ciphers *)

\* Variant: an oracle that never fails.
OraclePow_ok(fail, seed, nonce_group) ==
    [ok |-> TRUE, pow |-> (nonce_group * 7 + seed) % 1000]

\* pow::Prover::prove(nonce_group, challenge[..8], difficulty): deterministic.
OraclePow(fail, seed, nonce_group) ==
    IF nonce_group \in fail THEN [ok |-> FALSE, err |-> PoWNotFound]
    ELSE [ok |-> TRUE, pow |-> (nonce_group * 7 + seed) % 1000]

\* nonce_group.try_into()?: the conversion of a u32 nonce group to the type of
\* the oracle's nonce_group parameter, a u32 as well.
TryIntoGroup(nonce_group) == nonce_group \in 0..(U32 - 1)

\* AesCipher::new(challenge, nonce_group, pow)
AesCipherNew(challenge, nonce_group, pow) ==
    [challenge |-> challenge, nonce_group |-> nonce_group, pow |-> pow]

\* AesCipher::new_lazy(challenge, nonce, nonce_group, pow)
AesCipherNewLazy(challenge, nonce, nonce_group, pow) ==
    [challenge |-> challenge, nonce |-> nonce, nonce_group |-> nonce_group,
     pow |-> pow]

\* Byte j of the AES block a primary cipher produces for a label: a fixed
\* function of the key material (challenge, nonce_group, pow) and the label.
EncryptByte(c, label, j) ==
    LET m == c.challenge * 5 + c.nonce_group * 3 + c.pow + label * 7 + j * 11
             + ((label * (j + 1)) % 5)
    IN  (m % 16) * 17

\* First little-endian 64-bit word of the AES block a secondary cipher
\* produces for a label; the top byte is not zero in general.
EncryptWord(c, label) ==
    LET m == c.challenge * 3 + c.nonce * 5 + c.nonce_group + c.pow + label * 3
    IN  ((m % 7) + 249) * (2 ^ LsbBits) + (m % 8)

----------------------------------------------------------------------------
(* Prover8_56::new *)

\* challenge[..8]: a challenge is written as a number whose last binary digit
\* stands for its bytes 8..32 and whose other digits stand for bytes 0..8.
Challenge8(challenge) == challenge \div 2

\* The arguments of one invocation of the oracle.
PowCall(nonce_group, challenge, pow_difficulty) ==
    [nonce_group |-> nonce_group, challenge |-> Challenge8(challenge),
     difficulty |-> pow_difficulty]

\* Variant: the groups after a failed one are tried as well.
RECURSIVE PowLoop_noStop(_, _, _, _, _, _)
PowLoop_noStop(fail, seed, challenge, pow_difficulty, g, end_group) ==
    IF g >= end_group THEN [calls |-> <<>>, ciphers |-> <<>>, ok |-> TRUE]
    ELSE LET res == OraclePow(fail, seed, g)
             rest == PowLoop_noStop(fail, seed, challenge, pow_difficulty,
                                    g + 1, end_group)
         IN  [calls |-> <<PowCall(g, challenge, pow_difficulty)>> \o rest.calls,
              ciphers |-> IF res.ok
                          THEN <<AesCipherNew(challenge, g, res.pow)>> \o rest.ciphers
                          ELSE rest.ciphers,
              ok |-> res.ok /\ rest.ok]

\* The oracle invocations of new, in order, and the primary ciphers built:
\* the iterator stops at the first error (a failed conversion, or the
\* oracle's error).
RECURSIVE PowLoop(_, _, _, _, _, _)
PowLoop(fail, seed, challenge, pow_difficulty, g, end_group) ==
    IF g >= end_group THEN [calls |-> <<>>, ciphers |-> <<>>, ok |-> TRUE]
    ELSE IF ~TryIntoGroup(g) THEN [calls |-> <<>>, ciphers |-> <<>>, ok |-> FALSE]
    ELSE LET res == OraclePow(fail, seed, g) IN
         IF ~res.ok
         THEN [calls |-> <<PowCall(g, challenge, pow_difficulty)>>,
               ciphers |-> <<>>, ok |-> FALSE]
         ELSE LET rest == PowLoop(fail, seed, challenge, pow_difficulty,
                                  g + 1, end_group) IN
              [calls |-> <<PowCall(g, challenge, pow_difficulty)>> \o rest.calls,
               ciphers |-> <<AesCipherNew(challenge, g, res.pow)>> \o rest.ciphers,
               ok |-> rest.ok]

LazyCiphers(challenge, start, end, ciphers) ==
    [i \in 1..(end - start) |->
        LET nonce == start + i - 1
            nonce_group == calc_nonce_group(nonce, NONCES_PER_AES)
        IN  AesCipherNewLazy(challenge, nonce, nonce_group,
                ciphers[(nonce_group % Len(ciphers)) + 1].pow)]

\* Variant: the start of the range is not checked.
ValidRange_noStart(start, end) ==
    /\ start < end
    /\ (end - start) % NONCES_PER_AES = 0

ValidRange(start, end) ==
    /\ start % NONCES_PER_AES = 0
    /\ start < end
    /\ (end - start) % NONCES_PER_AES = 0

\* The result of Prover8_56::new for the ProvingParams pp: the oracle calls
\* made, and the prover or an error.
Prover8_56_new(fail, seed, challenge, start, end, pp) ==
    IF ~ValidRange(start, end)
    THEN [calls |-> <<>>, ok |-> FALSE, prover |-> NoProver]
    ELSE LET r == nonce_group_range(start, end, NONCES_PER_AES)
             difficulty == pp.difficulty
             p == PowLoop(fail, seed, challenge, pp.pow_difficulty, r[1], r[2])
         IN  IF ~p.ok
             THEN [calls |-> p.calls, ok |-> FALSE, prover |-> NoProver]
             ELSE [calls |-> p.calls, ok |-> TRUE,
                   prover |->
                     [ciphers |-> p.ciphers,
                      lazy_ciphers |-> LazyCiphers(challenge, start, end, p.ciphers),
                      difficulty_msb |-> split_difficulty(difficulty)[1],
                      difficulty_lsb |-> split_difficulty(difficulty)[2]]]

\* Variant: indexed by the offset of the nonce in its group.
cipher_index_offset(p, nonce) == (nonce % NONCES_PER_AES) % Len(p.ciphers)

\* Prover8_56::cipher: index into ciphers (0-based in the source)
cipher_index(p, nonce) ==
    calc_nonce_group(nonce, NONCES_PER_AES) % Len(p.ciphers)

\* slice.get(i): an Option, here a sequence of no or one element.
Get(seq, i) == IF i < Len(seq) THEN <<seq[i + 1]>> ELSE <<>>

cipher(p, nonce) == Get(p.ciphers, cipher_index(p, nonce))

lazy_cipher_index(p, nonce) == nonce % Len(p.lazy_ciphers)

lazy_cipher(p, nonce) == Get(p.lazy_ciphers, lazy_cipher_index(p, nonce))

\* Prover::get_pow: Option<u64>
get_pow(p, nonce) ==
    IF cipher(p, nonce) = <<>> THEN <<>> ELSE <<cipher(p, nonce)[1].pow>>

----------------------------------------------------------------------------
(* Prover8_56::prove and check_lsb *)

\* A batch is a sequence of 16-byte labels; the label holding byte
\* `byte_offset` of chunk c.
LabelAt(batch, c, byte_offset) ==
    batch[c * AES_BATCH + (byte_offset \div LABEL_SIZE) + 1]

\* One consume call: its arguments (nonce, index) and, for reference, the
\* position of the loops when it is made (chunk c, cipher ci, byte offset o)
\* and whether it is the call made in check_lsb.
ConsumeCall(nonce, index, c, ci, o, lsb) ==
    [nonce |-> nonce, index |-> index, c |-> c, ci |-> ci, o |-> o, lsb |-> lsb]

\* The low 56 bits of the secondary cipher's first output word.
LsbOf(p, label, nonce) ==
    EncryptWord(lazy_cipher(p, nonce)[1], label) % (LSB_MASK + 1)

\* Variant: a low part equal to difficulty_lsb passes as well.
check_lsb_le(p, label, nonce, nonce_offset, base_index, c, ci) ==
    IF LsbOf(p, label, nonce) <= p.difficulty_lsb
    THEN <<ConsumeCall(nonce, base_index + (nonce_offset \div NONCES_PER_AES),
                       c, ci, nonce_offset, TRUE)>>
    ELSE <<>>

\* check_lsb: the consume calls it makes (none or one).
check_lsb(p, label, nonce, nonce_offset, base_index, c, ci) ==
    IF LsbOf(p, label, nonce) < p.difficulty_lsb
    THEN <<ConsumeCall(nonce, base_index + (nonce_offset \div NONCES_PER_AES),
                       c, ci, nonce_offset, TRUE)>>
    ELSE <<>>

\* Variant: a byte equal to difficulty_msb is skipped like a larger one.
CallAt_msbOnly(p, batch, base, c, ci, o) ==
    LET ciph == p.ciphers[ci + 1]
        msb == EncryptByte(ciph, LabelAt(batch, c, (o \div BLOCK_SIZE) * BLOCK_SIZE),
                           o % BLOCK_SIZE)
    IN  IF msb < p.difficulty_msb
        THEN <<ConsumeCall(calc_nonce(ciph.nonce_group, NONCES_PER_AES, o),
                           base + AES_BATCH * c + (o \div NONCES_PER_AES), c, ci, o,
                           FALSE)>>
        ELSE <<>>

\* The body of the innermost loop of prove at chunk c, cipher ci, offset o:
\* the consume calls it makes (none or one).
CallAt(p, batch, base, c, ci, o) ==
    LET ciph == p.ciphers[ci + 1]
        index == base + AES_BATCH * c
        msb == EncryptByte(ciph, LabelAt(batch, c, (o \div BLOCK_SIZE) * BLOCK_SIZE),
                           o % BLOCK_SIZE)
    IN  IF msb <= p.difficulty_msb
        THEN IF msb = p.difficulty_msb
             THEN LET nonce == calc_nonce(ciph.nonce_group, NONCES_PER_AES, o)
                      label_offset == (o \div NONCES_PER_AES) * LABEL_SIZE
                  IN  check_lsb(p, LabelAt(batch, c, label_offset), nonce, o,
                                index, c, ci)
             ELSE <<ConsumeCall(calc_nonce(ciph.nonce_group, NONCES_PER_AES, o),
                                index + (o \div NONCES_PER_AES), c, ci, o, FALSE)>>
        ELSE <<>>

\* batch.chunks_exact(CHUNK_SIZE): the number of full chunks.
NumChunks(batch) == (Len(batch) * LABEL_SIZE) \div CHUNK_SIZE

\* Variant: the loop over the ciphers outside the loop over the chunks.
LoopPositions_cipherOuter(p, batch) ==
    LET C == NumChunks(batch)
    IN  [k \in 1..(C * Len(p.ciphers) * CHUNK_SIZE) |->
            [c |-> ((k - 1) \div CHUNK_SIZE) % C,
             ci |-> (k - 1) \div (C * CHUNK_SIZE),
             o |-> (k - 1) % CHUNK_SIZE]]

\* Variant: the chunks of the batch taken last to first.
LoopPositions_chunkDown(p, batch) ==
    LET G == Len(p.ciphers)
        C == NumChunks(batch)
    IN  [k \in 1..(C * G * CHUNK_SIZE) |->
            [c |-> C - 1 - ((k - 1) \div (G * CHUNK_SIZE)),
             ci |-> ((k - 1) \div CHUNK_SIZE) % G,
             o |-> (k - 1) % CHUNK_SIZE]]

\* The positions of the triple loop of prove, in execution order.
LoopPositions(p, batch) ==
    LET G == Len(p.ciphers)
    IN  [k \in 1..(NumChunks(batch) * G * CHUNK_SIZE) |->
            [c |-> (k - 1) \div (G * CHUNK_SIZE),
             ci |-> ((k - 1) \div CHUNK_SIZE) % G,
             o |-> (k - 1) % CHUNK_SIZE]]

\* Variant: a list returned to check_lsb is dropped and the scan goes on.
ReturnOf_msbOnly(call, r) ==
    IF r = <<>> \/ call.lsb THEN <<>> ELSE <<<<call.nonce, r[1]>>>>

\* What prove does with the Option r that consume returned for a call: on
\* Some(indexes) it returns Some((nonce, indexes)), in prove itself or
\* through check_lsb; on None it goes on (here: no return value).
ReturnOf(call, r) ==
    IF r = <<>> THEN <<>> ELSE <<<<call.nonce, r[1]>>>>

\* prove with a consume that always returns None: the consume calls made,
\* in order.
prove(p, batch, base) ==
    LET Hit(pos) == CallAt(p, batch, base, pos.c, pos.ci, pos.o) # <<>>
        hits == SelectSeq(LoopPositions(p, batch), Hit)
    IN  [i \in 1..Len(hits) |->
            CallAt(p, batch, base, hits[i].c, hits[i].ci, hits[i].o)[1]]

----------------------------------------------------------------------------
(* Inputs *)

MaxGroups == 3
MaxSeed == 1

Challenges == {1, 2}

StartSamples == {0, 16, 32, 5, 4096, U32 - 64}

\* Range<u32>: both ends are u32 values.
RangeSamples ==
    {r \in {<<s, s + NONCES_PER_AES * k>> : s \in StartSamples, k \in 0..MaxGroups}
            \cup {<<s, s + l>> : s \in StartSamples, l \in {7, 20}}
            \cup {<<32, 16>>} :
        r[2] < U32}

GroupSamples ==
    {(s \div NONCES_PER_AES) + k : s \in StartSamples, k \in 0..(MaxGroups - 1)}

FailSets == {{}} \cup {{g} : g \in GroupSamples}

Difficulties == {0, 51 * (2 ^ LsbBits) + 4, U64 - 1}

\* Bytes of a PoW target ([u8; 32] in the source).
PowBytes == 2

\* The target [0xFF; 32] of the tests.
PowTargetFF == [i \in 1..PowBytes |-> 255]

ParamSamples ==
    {[difficulty |-> d, pow_difficulty |-> PowTargetFF] : d \in Difficulties}

Labels(n, a, b) == [i \in 1..n |-> (a * i + b) % 13]

BatchSamples ==
    {<<>>, [i \in 1..8 |-> 0], Labels(8, 1, 0), Labels(11, 3, 1), Labels(16, 5, 2)}

IndexSamples == {0, 24}

GpIdle == [pc |-> "idle"]

----------------------------------------------------------------------------
(* The Prover8_56 API used directly: new, then prove *)

Init ==
    /\ powFail \in FailSets
    /\ powSeed \in 0..MaxSeed
    /\ pc = "idle"
    /\ nonces = <<0, 0>>
    /\ powCalls = <<>>
    /\ prover = NoProver
    /\ proveArgs = <<>>
    /\ emitted = <<>>
    /\ gp = GpIdle
    /\ params = <<>>
    /\ result = <<>>
    /\ args = <<>>
    /\ ret = <<>>

New(challenge, start, end, pp) ==
    /\ pc = "idle"
    /\ LET r == Prover8_56_new(powFail, powSeed, challenge, start, end, pp)
       IN  /\ powCalls' = r.calls
           /\ prover' = r.prover
           /\ pc' = IF r.ok THEN "ready" ELSE "failed"
    /\ nonces' = <<start, end>>
    /\ params' = <<challenge, pp>>
    /\ UNCHANGED <<powFail, powSeed, proveArgs, emitted, gp, result, args, ret>>

Prove(batch, index) ==
    /\ pc = "ready"
    /\ emitted' = prove(prover, batch, index)
    /\ proveArgs' = <<batch, index>>
    /\ pc' = "proved"
    /\ UNCHANGED <<powFail, powSeed, nonces, powCalls, prover, gp,
                   params, result, args, ret>>

Next ==
    \/ \E ch \in Challenges, r \in RangeSamples, pp \in ParamSamples :
          New(ch, r[1], r[2], pp)
    \/ \E b \in BatchSamples, i \in IndexSamples : Prove(b, i)

Spec == Init /\ [][Next]_vars

----------------------------------------------------------------------------
(* Properties of Prover8_56::new and of cipher selection *)

Elems(seq) == {seq[i] : i \in DOMAIN seq}

Built == pc \in {"ready", "proved"}

RangeGroups(start, end) ==
    (start \div NONCES_PER_AES)..((end \div NONCES_PER_AES) - 1)

C5_InvalidRangeFailsWithoutPow ==
    (/\ pc # "idle"
     /\ \/ nonces[2] <= nonces[1]
        \/ nonces[1] % 16 # 0
        \/ (nonces[2] - nonces[1]) % 16 # 0)
    => (pc = "failed" /\ powCalls = <<>> /\ prover = NoProver)

\* new was refused for a range of 16 nonces that starts at nonce 5.
C5_Witness ==
    /\ pc = "failed"
    /\ nonces = <<5, 21>>
    /\ powFail = {}

\* C6: for every nonce n of the range of a prover, the primary cipher
\* selected for n is ciphers[((n - start) / 16) mod |ciphers|], the cipher
\* built for group n / 16, and get_pow(n) is the pow the oracle returned for
\* group n / 16.
C6_PrimaryCipherOfOwnGroup ==
    Built =>
        \A n \in nonces[1]..(nonces[2] - 1) :
            /\ cipher_index(prover, n)
                   = ((n - nonces[1]) \div 16) % Len(prover.ciphers)
            /\ cipher(prover, n) # <<>>
            /\ cipher(prover, n)[1].nonce_group = n \div 16
            /\ get_pow(prover, n) = <<OraclePow(powFail, powSeed, n \div 16).pow>>

\* C7: for every nonce n of the range of a prover, the secondary cipher
\* selected for n is lazy_ciphers[(n - start) mod |lazy_ciphers|], the one
\* built for nonce n, and it was built with the pow of group n / 16.
C7_SecondaryCipherOfOwnNonce ==
    Built =>
        \A n \in nonces[1]..(nonces[2] - 1) :
            /\ lazy_cipher_index(prover, n)
                   = (n - nonces[1]) % Len(prover.lazy_ciphers)
            /\ lazy_cipher(prover, n) # <<>>
            /\ lazy_cipher(prover, n)[1].nonce = n
            /\ lazy_cipher(prover, n)[1].pow
                   = OraclePow(powFail, powSeed, n \div 16).pow

----------------------------------------------------------------------------
(* Properties of Prover8_56::prove *)

Pairs == [i \in DOMAIN emitted |-> <<emitted[i].nonce, emitted[i].index>>]

\* The primary cipher built for nonce group g.
PrimaryOf(p, g) == CHOOSE x \in Elems(p.ciphers) : x.nonce_group = g

ProverGroups(p) == {x.nonce_group : x \in Elems(p.ciphers)}

\* The two-stage predicate for nonce n and a label.
Passes(p, n, label) ==
    LET u == EncryptByte(PrimaryOf(p, n \div 16), label, n % 16)
    IN  \/ u < p.difficulty_msb
        \/ /\ u = p.difficulty_msb
           /\ EncryptWord(lazy_cipher(p, n)[1], label) % (2 ^ LsbBits)
                  < p.difficulty_lsb

\* The labels of the full chunks of a batch, by position.
FullLabels(batch) == 0..(8 * ((16 * Len(batch)) \div 128) - 1)

PassingPairs(p, batch, base) ==
    {<<16 * g + j, base + l>> :
        <<g, j, l>> \in {t \in ProverGroups(p) \X (0..15) \X FullLabels(batch) :
                            Passes(p, 16 * t[1] + t[2], batch[t[3] + 1])}}

\* C1: with a consume that always returns None, prove invokes consume(n, idx)
\* exactly for the pairs whose label passes the two-stage predicate (primary
\* byte below difficulty_msb, or equal to it with the low bits of the
\* secondary word below difficulty_lsb), with idx = base_index + 8*c + o/16.
C1_ConsumeIffPasses ==
    pc = "proved" =>
        Elems(Pairs) = PassingPairs(prover, proveArgs[1], proveArgs[2])

\* A prove call in which a label passed on the primary byte alone, another
\* through the secondary check, and a third pair did not pass.
C1_Witness ==
    /\ pc = "proved"
    /\ \E e \in Elems(emitted) :
          EncryptByte(prover.ciphers[e.ci + 1],
                      proveArgs[1][e.index - proveArgs[2] + 1], e.o % 16)
              < prover.difficulty_msb
    /\ \E e \in Elems(emitted) :
          EncryptByte(prover.ciphers[e.ci + 1],
                      proveArgs[1][e.index - proveArgs[2] + 1], e.o % 16)
              = prover.difficulty_msb
    /\ Len(emitted) < Cardinality(FullLabels(proveArgs[1])) * (nonces[2] - nonces[1])
    /\ Len(prover.ciphers) > 1

\* Every (label, nonce) pair of the full chunks of the batch passes.
AllPass ==
    /\ pc = "proved"
    /\ Cardinality(PassingPairs(prover, proveArgs[1], proveArgs[2]))
           = Cardinality(FullLabels(proveArgs[1])) * (nonces[2] - nonces[1])

\* Label-major order: for each label position, for each nonce of the range.
LabelMajor(start, end, base, nlabels) ==
    [k \in 1..(nlabels * (end - start)) |->
        <<start + ((k - 1) % (end - start)), base + ((k - 1) \div (end - start))>>]

\* C9 as stated: in a batch (of full chunks) in which every pair passes, the
\* consume calls are, for each label position p in ascending order, for each
\* nonce n of the whole range in ascending order, (n, base_index + p).
C9_LabelMajorOrder ==
    (AllPass /\ Len(proveArgs[1]) % 8 = 0) =>
        Pairs = LabelMajor(nonces[1], nonces[2], proveArgs[2], Len(proveArgs[1]))

\* Order by chunk, then nonce group, then label of the chunk, then nonce of
\* the group.
GroupMajor(start, end, base, nchunks) ==
    LET G == (end - start) \div 16
    IN  [k \in 1..(nchunks * G * 128) |->
            LET c == (k - 1) \div (G * 128)
                g == (start \div 16) + (((k - 1) \div 128) % G)
                l == ((k - 1) % 128) \div 16
                j == (k - 1) % 16
            IN  <<16 * g + j, base + 8 * c + l>>]

\* C9 amended: in a batch in which every pair of the full chunks passes, the
\* consume calls are, for each chunk, for each nonce group of the range in
\* ascending order, for each label of the chunk in ascending order, for each
\* nonce of the group in ascending order, (n, base_index + p); for a range of
\* one group this is the label-major order.
C9_GroupMajorOrder ==
    AllPass =>
        /\ Pairs = GroupMajor(nonces[1], nonces[2], proveArgs[2],
                              Len(proveArgs[1]) \div 8)
        /\ (nonces[2] - nonces[1] = 16 /\ Len(proveArgs[1]) % 8 = 0)
              => Pairs = LabelMajor(nonces[1], nonces[2], proveArgs[2],
                                    Len(proveArgs[1]))

\* Every pair passed in a batch of two chunks scanned for two nonce groups.
C9_Witness ==
    /\ AllPass
    /\ Len(proveArgs[1]) = 16
    /\ nonces[2] - nonces[1] = 32
    /\ nonces[1] > 0

\* The loop position a consume call was made at, from its arguments.
ChunkOfCall(i) == (emitted[i].index - proveArgs[2]) \div 8
GroupOfCall(i) == emitted[i].nonce \div 16
OffsetOfCall(i) ==
    ((emitted[i].index - proveArgs[2]) % 8) * 16 + (emitted[i].nonce % 16)

\* C10: the consume calls of chunk c precede those of chunk c + 1; within a
\* chunk they are in cipher order (ascending nonce group), and for one cipher
\* in ascending byte offset order: each call is followed by one at a later
\* position of this (transitive) order.
C10_ChunkCipherOffsetOrder ==
    pc = "proved" =>
        \A i \in 1..(Len(emitted) - 1) :
            \/ ChunkOfCall(i) < ChunkOfCall(i + 1)
            \/ /\ ChunkOfCall(i) = ChunkOfCall(i + 1)
               /\ GroupOfCall(i) < GroupOfCall(i + 1)
            \/ /\ ChunkOfCall(i) = ChunkOfCall(i + 1)
               /\ GroupOfCall(i) = GroupOfCall(i + 1)
               /\ OffsetOfCall(i) < OffsetOfCall(i + 1)

\* A prove call that made consume calls in two chunks, for two ciphers in
\* one chunk, and at two offsets for one cipher in one chunk.
C10_Witness ==
    /\ pc = "proved"
    /\ prover.difficulty_msb < 255
    /\ \E i, j \in DOMAIN emitted : ChunkOfCall(i) < ChunkOfCall(j)
    /\ \E i, j \in DOMAIN emitted :
          ChunkOfCall(i) = ChunkOfCall(j) /\ GroupOfCall(i) < GroupOfCall(j)
    /\ \E i, j \in DOMAIN emitted :
          /\ i < j
          /\ ChunkOfCall(i) = ChunkOfCall(j)
          /\ GroupOfCall(i) = GroupOfCall(j)

----------------------------------------------------------------------------
(* generate_proof: the orchestrator loop, the reader, the worker threads of  *)
(* the pool running find_map_any, and the accumulator behind the mutex.     *)

MaxIter == 3
MaxK2 == 3
NumBatches == 2

\* Labels per batch of the reader (its 1 MiB buffer, here two chunks).
ReaderBatchLabels == 16

Threads == {1, 2}

\* The argument `nonces` of generate_proof, a usize.
NoncesPerIter == {16, 32, U32 + 16}

\* `nonces as u32`: the low 32 bits of the usize.
as_u32(n) == n % U32

GenDifficulties == {0, 2, 17 * (2 ^ LsbBits) + 1}

GenFailSets == {{}, {1}, {2}}

\* The label at position i (from 0) of the data on disk.
DataLabel(i) == (i * 5 + 2) % 29

\* read_data: the batches of the dataset, each with its byte position.
read_data ==
    [b \in 1..NumBatches |->
        [data |-> [i \in 1..ReaderBatchLabels |->
                      DataLabel((b - 1) * ReaderBatchLabels + i - 1)],
         pos |-> (b - 1) * ReaderBatchLabels * LABEL_SIZE]]

Idle == [st |-> "idle"]

\* Variant: the list is taken only once it is longer than k2.
consume_gt(indexes, k2, nonce, index) ==
    LET vec == (IF nonce \in DOMAIN indexes THEN indexes[nonce] ELSE <<>>)
                   \o <<index>>
        rest == [n \in DOMAIN indexes \ {nonce} |-> indexes[n]]
    IN  IF Len(vec) > k2
        THEN [indexes |-> rest @@ (nonce :> <<>>), ret |-> <<vec>>]
        ELSE [indexes |-> rest @@ (nonce :> vec), ret |-> <<>>]

\* Variant: a lost update, the list is rebuilt from the new index alone.
consume_overwrite(indexes, k2, nonce, index) ==
    LET vec == <<index>>
        rest == [n \in DOMAIN indexes \ {nonce} |-> indexes[n]]
    IN  IF Len(vec) >= k2
        THEN [indexes |-> rest @@ (nonce :> <<>>), ret |-> <<vec>>]
        ELSE [indexes |-> rest @@ (nonce :> vec), ret |-> <<>>]

\* The consume closure of generate_proof, run with the mutex held: the new
\* accumulator map and the closure's result (None, or Some(list)).
consume(indexes, k2, nonce, index) ==
    LET vec == (IF nonce \in DOMAIN indexes THEN indexes[nonce] ELSE <<>>)
                   \o <<index>>
        rest == [n \in DOMAIN indexes \ {nonce} |-> indexes[n]]
    IN  IF Len(vec) >= k2
        THEN [indexes |-> rest @@ (nonce :> <<>>), ret |-> <<vec>>]
        ELSE [indexes |-> rest @@ (nonce :> vec), ret |-> <<>>]

\* prove with the closure above over the accumulator `indexes`, from the
\* j-th place on at which the loops of prove call consume (`sites` are those
\* places in loop order): the consume calls made from there and the value
\* returned.
RECURSIVE prove_from(_, _, _, _)
prove_from(sites, k2, j, indexes) ==
    IF j > Len(sites)
    THEN [calls |-> <<>>, result |-> <<>>]
    ELSE LET r == consume(indexes, k2, sites[j].nonce, sites[j].index)
             out == ReturnOf(sites[j], r.ret)
         IN  IF out # <<>>
             THEN [calls |-> <<sites[j]>>, result |-> out]
             ELSE LET rest == prove_from(sites, k2, j + 1, r.indexes)
                  IN  [calls |-> <<sites[j]>> \o rest.calls,
                       result |-> rest.result]

\* A prove call with the accumulating closure over a new, empty map, as in
\* the tests indicies_distribution and proving_vector.
ProveWith(batch, index, k2) ==
    /\ pc = "ready"
    /\ LET r == prove_from(prove(prover, batch, index), k2, 1, <<>>)
       IN  /\ emitted' = r.calls
           /\ result' = r.result
    /\ proveArgs' = <<batch, index, k2>>
    /\ pc' = "consumed"
    /\ UNCHANGED <<powFail, powSeed, nonces, powCalls, prover, gp, params, args,
                   ret>>

NextConsume ==
    \/ \E ch \in Challenges, r \in RangeSamples, pp \in ParamSamples :
          New(ch, r[1], r[2], pp)
    \/ \E b \in BatchSamples, i \in IndexSamples \ {0}, k2 \in 0..MaxK2 :
          ProveWith(b, i, k2)

SpecConsume == Init /\ [][NextConsume]_vars

\* The indices of the calls for nonce n among the first j of `calls`.
IndicesOf(calls, j, n) ==
    LET sel == SelectSeq(SubSeq(calls, 1, j), LAMBDA x : x.nonce = n)
    IN  [i \in DOMAIN sel |-> sel[i].index]

\* C11 (the closure returns a list to a call for nonce n when, with the
\* index of that call, it holds at least k2 indices for n): prove returns at the first consume call that returns a list, with
\* the nonce of that call and that list, having made exactly the calls up to
\* that one (those a scan of the whole batch makes, in the same order, and
\* none after it); when no consume call returns a list, prove makes all the
\* calls of the scan of every full chunk and returns None. The call that
\* ends prove may be the one in prove itself or the one in check_lsb.
C11_ReturnsAtFirstList ==
    pc = "consumed" =>
        LET full == prove(prover, proveArgs[1], proveArgs[2])
            k2 == proveArgs[3]
            n == Len(emitted)
            NoListIn(j) ==
                IF k2 = 0 THEN j = 0
                ELSE \A m \in nonces[1]..(nonces[2] - 1) :
                        Len(IndicesOf(emitted, j, m)) < k2
        IN  /\ emitted = SubSeq(full, 1, n)
            /\ IF result = <<>>
               THEN n = Len(full) /\ NoListIn(n)
               ELSE /\ n >= 1
                    /\ NoListIn(n - 1)
                    /\ result = <<<<emitted[n].nonce,
                                    IndicesOf(emitted, n, emitted[n].nonce)>>>>
                    /\ Len(result[1][2]) >= k2

\* prove returned a list of several indices from check_lsb, in the first of
\* two chunks, leaving calls of the scan unmade.
C11_Witness ==
    /\ pc = "consumed"
    /\ result # <<>>
    /\ Len(result[1][2]) >= 2
    /\ emitted[Len(emitted)].lsb
    /\ emitted[Len(emitted)].c = 0
    /\ Len(proveArgs[1]) = 16
    /\ Len(emitted) < Len(prove(prover, proveArgs[1], proveArgs[2]))

\* Proof::new, with the index list as handed to it.
ProofNew(nonce, indices, pow) ==
    [nonce |-> nonce, indices |-> indices, pow |-> pow]

InitGen ==
    /\ powFail \in GenFailSets
    /\ powSeed \in 0..MaxSeed
    /\ pc = "generate_proof"
    /\ nonces = <<0, 0>>
    /\ powCalls = <<>>
    /\ prover = NoProver
    /\ proveArgs = <<>>
    /\ emitted = <<>>
    /\ params = <<>>
    /\ result = <<>>
    /\ args = <<>>
    /\ ret = <<>>
    /\ \E ch \in Challenges, k2 \in 0..MaxK2, n \in NoncesPerIter,
          d \in GenDifficulties :
          gp = [pc |-> "new", challenge |-> ch, k2 |-> k2, nonces |-> n,
                difficulty |-> d, iter |-> 0,
                start_nonce |-> 0, end_nonce |-> as_u32(n),
                indexes |-> <<>>, reader |-> <<>>,
                workers |-> [w \in Threads |-> Idle],
                results |-> {}, proof |-> <<>>, log |-> {}]

\* Top of the loop: a new accumulator and a new prover for the range.
GpNew ==
    /\ gp.pc = "new"
    /\ LET pp == [difficulty |-> gp.difficulty, pow_difficulty |-> PowTargetFF]
           r == Prover8_56_new(powFail, powSeed, gp.challenge, gp.start_nonce,
                               gp.end_nonce, pp)
       IN  /\ powCalls' = r.calls
           /\ params' = <<gp.challenge, pp>>
           /\ prover' = r.prover
           /\ nonces' = <<gp.start_nonce, gp.end_nonce>>
           /\ gp' = [gp EXCEPT !.pc = IF r.ok THEN "scan" ELSE "error",
                               !.indexes = <<>>,
                               !.reader = IF r.ok THEN read_data ELSE <<>>,
                               !.results = {},
                               !.log = {}]
    /\ UNCHANGED <<powFail, powSeed, pc, proveArgs, emitted, result, args, ret>>

\* A worker in prove: the consume calls its scan of the batch has still to
\* make (if every consume returns None), the chunk it is scanning and the
\* number of full chunks of its batch.
Proving(calls, c, chunks) ==
    [st |-> "proving", calls |-> calls, c |-> c, chunks |-> chunks]

\* A worker takes the next batch of the reader, unless a result was found,
\* and enters prove, at the first chunk of the batch.
WorkerTake(w) ==
    /\ gp.pc = "scan"
    /\ gp.workers[w].st = "idle"
    /\ gp.results = {}
    /\ gp.reader # <<>>
    /\ LET batch == Head(gp.reader)
           calls == prove(prover, batch.data, batch.pos \div BLOCK_SIZE)
       IN  gp' = [gp EXCEPT
                    !.reader = Tail(gp.reader),
                    !.workers[w] = IF NumChunks(batch.data) = 0 THEN Idle
                                   ELSE Proving(calls, 0, NumChunks(batch.data))]
    /\ UNCHANGED <<powFail, powSeed, pc, nonces, powCalls, prover, proveArgs,
                   emitted, params, result, args, ret>>

\* A worker in prove makes the next consume call of the chunk it is in, with
\* the mutex held for the whole closure; on Some(list) prove returns it.
\* gp.log records the calls made in this iteration.
WorkerConsume(w) ==
    /\ gp.pc = "scan"
    /\ gp.workers[w].st = "proving"
    /\ gp.workers[w].calls # <<>>
    /\ Head(gp.workers[w].calls).c = gp.workers[w].c
    /\ LET call == Head(gp.workers[w].calls)
           r == consume(gp.indexes, gp.k2, call.nonce, call.index)
           out == ReturnOf(call, r.ret)
       IN  gp' = [gp EXCEPT
                    !.indexes = r.indexes,
                    !.log = @ \cup {<<call.nonce, call.index>>},
                    !.results = @ \cup Elems(out),
                    !.workers[w] =
                        IF out # <<>> THEN Idle
                        ELSE Proving(Tail(gp.workers[w].calls), gp.workers[w].c,
                                     gp.workers[w].chunks)]
    /\ UNCHANGED <<powFail, powSeed, pc, nonces, powCalls, prover, proveArgs,
                   emitted, params, result, args, ret>>

\* A worker in prove is done with its chunk: it goes on to the next chunk of
\* the batch, whatever the other workers have found, and after the last
\* chunk prove returns None.
WorkerNextChunk(w) ==
    /\ gp.pc = "scan"
    /\ gp.workers[w].st = "proving"
    /\ IF gp.workers[w].calls = <<>> THEN TRUE
       ELSE Head(gp.workers[w].calls).c > gp.workers[w].c
    /\ gp' = [gp EXCEPT
                 !.workers[w] =
                     IF gp.workers[w].c + 1 < gp.workers[w].chunks
                     THEN Proving(gp.workers[w].calls, gp.workers[w].c + 1,
                                  gp.workers[w].chunks)
                     ELSE Idle]
    /\ UNCHANGED <<powFail, powSeed, pc, nonces, powCalls, prover, proveArgs,
                   emitted, params, result, args, ret>>

\* find_map_any has ended with a result, one of those found: the proof.
GpReturn ==
    /\ gp.pc = "scan"
    /\ \A w \in Threads : gp.workers[w].st = "idle"
    /\ \E res \in gp.results :
          LET pow == get_pow(prover, res[1])
          IN  gp' = IF pow = <<>>
                    THEN [gp EXCEPT !.pc = "panic"]
                    ELSE [gp EXCEPT !.pc = "done",
                                    !.proof = <<ProofNew(res[1], res[2], pow[1])>>]
    /\ UNCHANGED <<powFail, powSeed, pc, nonces, powCalls, prover, proveArgs,
                   emitted, params, result, args, ret>>

\* find_map_any has ended without a result: on to the next nonce range. The
\* new end is a u32 sum: on overflow a build with overflow checks panics and
\* a build without them wraps around.
GpEscalate ==
    /\ gp.pc = "scan"
    /\ \A w \in Threads : gp.workers[w].st = "idle"
    /\ gp.results = {}
    /\ gp.reader = <<>>
    /\ gp.iter + 1 < MaxIter
    /\ \E build \in IF gp.end_nonce + as_u32(gp.nonces) >= U32
                     THEN {"wrapping", "checked"} ELSE {"wrapping"} :
          gp' = IF build = "checked" THEN [gp EXCEPT !.pc = "overflow"]
                ELSE [gp EXCEPT
                        !.pc = "new",
                        !.iter = @ + 1,
                        !.start_nonce = gp.end_nonce,
                        !.end_nonce = (gp.end_nonce + as_u32(gp.nonces)) % U32]
    /\ UNCHANGED <<powFail, powSeed, pc, nonces, powCalls, prover, proveArgs,
                   emitted, params, result, args, ret>>

NextGen ==
    \/ GpNew
    \/ \E w \in Threads : WorkerTake(w)
    \/ \E w \in Threads : WorkerConsume(w)
    \/ \E w \in Threads : WorkerNextChunk(w)
    \/ GpReturn
    \/ GpEscalate

SpecGen == InitGen /\ [][NextGen]_vars /\ WF_vars(NextGen)

----------------------------------------------------------------------------
(* Properties of generate_proof *)

Returned == gp.pc = "done"

\* C2 as stated: every proof returned by generate_proof carries exactly k2
\* indices, for every k2 (0 and 1 included) and every schedule.
C2_ProofHasK2Indices ==
    Returned => Len(gp.proof[1].indices) = gp.k2

\* C2 amended: every proof returned carries exactly k2 indices when k2 >= 1
\* and exactly one index when k2 = 0; the list handed to Proof::new is a list
\* taken from the accumulator of the proof's nonce when a push made its
\* length reach k2.
C2_ProofHasK2OrOneIndices ==
    Returned =>
        /\ Len(gp.proof[1].indices) = (IF gp.k2 = 0 THEN 1 ELSE gp.k2)
        /\ <<gp.proof[1].nonce, gp.proof[1].indices>> \in gp.results

\* A proof was returned for k2 >= 2 after two workers each took a full list.
C2_Witness ==
    /\ Returned
    /\ gp.k2 >= 2
    /\ Cardinality(gp.results) >= 2

\* The number of labels of the dataset that pass for nonce n.
PassingLabels(p, n) ==
    Cardinality({i \in 0..(NumBatches * ReaderBatchLabels - 1) :
                    Passes(p, n, DataLabel(i))})

\* Some nonce of the range of prover p has at least k passing labels.
RangeHas(p, k) ==
    \E n \in nonces[1]..(nonces[2] - 1) : PassingLabels(p, n) >= k

\* C3 as stated: generate_proof returns a proof in the first iteration whose
\* range holds a nonce with at least k2 passing labels over the dataset: it
\* returns only in such an iteration and leaves no such iteration behind.
C3_ReturnsInFirstRangeWithK2 ==
    /\ Returned => RangeHas(prover, gp.k2)
    /\ (gp.pc = "new" /\ gp.iter > 0) => ~RangeHas(prover, gp.k2)

\* C3 amended: the same with "at least k2 and at least one passing label":
\* a proof is returned in the first iteration whose range holds a nonce with
\* at least max(k2, 1) passing labels, and every iteration left behind has
\* no such nonce.
C3_ReturnsInFirstRangeWithK2OrOne ==
    /\ Returned => RangeHas(prover, IF gp.k2 = 0 THEN 1 ELSE gp.k2)
    /\ (gp.pc = "new" /\ gp.iter > 0)
          => ~RangeHas(prover, IF gp.k2 = 0 THEN 1 ELSE gp.k2)
    /\ (gp.pc = "scan" /\ gp.reader = <<>> /\ gp.results = {}
          /\ \A w \in Threads : gp.workers[w].st = "idle")
          => ~RangeHas(prover, IF gp.k2 = 0 THEN 1 ELSE gp.k2)

\* A proof was returned in a later iteration, for k2 >= 2, after earlier
\* ranges were scanned in which labels passed.
C3_Witness ==
    /\ Returned
    /\ gp.iter >= 1
    /\ gp.k2 >= 2
    /\ gp.difficulty > 0

\* C8: the pow of the returned proof is the value the oracle returned, in
\* the iteration that found the proof, for the group nonce / 16 of the
\* proof's nonce; get_pow is never None for the winning nonce.
C8_ProofPowOfNonceGroup ==
    /\ gp.pc # "panic"
    /\ Returned =>
          /\ gp.proof[1].nonce \div 16 \in {x.nonce_group : x \in Elems(powCalls)}
          /\ gp.proof[1].pow
                = OraclePow(powFail, powSeed, gp.proof[1].nonce \div 16).pow

\* A proof was returned in a later iteration over two groups per range, for
\* a nonce of the second group of the range.
C8_Witness ==
    /\ Returned
    /\ gp.iter >= 1
    /\ gp.nonces = 32
    /\ gp.proof[1].nonce \div 16 = (gp.start_nonce \div 16) + 1

\* The lists of indices recorded for nonce m: the one the accumulator holds
\* and the ones taken from it.
ListsOf(m) ==
    {IF m \in DOMAIN gp.indexes THEN gp.indexes[m] ELSE <<>>}
        \cup {r[2] : r \in {x \in gp.results : x[1] = m}}

Distinct(seq) == Cardinality(Elems(seq)) = Len(seq)

\* C12: in every interleaving of the workers of an iteration, the indices
\* recorded for a nonce (held by the accumulator or taken from it) are
\* exactly the indices of the consume calls made for that nonce in the
\* iteration, each recorded once; so every list taken, the proof's included,
\* has pairwise distinct entries, each emitted for its nonce in the
\* iteration.
C12_AccumulatorSerialized ==
    /\ \A m \in {x[1] : x \in gp.log} \cup DOMAIN gp.indexes
                 \cup {x[1] : x \in gp.results} :
          /\ m \in nonces[1]..(nonces[2] - 1)
          /\ \A l \in ListsOf(m) : Distinct(l)
          /\ \A l1, l2 \in ListsOf(m) : l1 # l2 => Elems(l1) \cap Elems(l2) = {}
          /\ UNION {Elems(l) : l \in ListsOf(m)}
                = {x[2] : x \in {y \in gp.log : y[1] = m}}
    /\ Returned =>
          /\ Distinct(gp.proof[1].indices)
          /\ \A i \in Elems(gp.proof[1].indices) :
                 <<gp.proof[1].nonce, i>> \in gp.log

\* A proof of several indices whose list holds an index of the second batch
\* before an index of the first one: two workers took turns.
C12_Witness ==
    /\ Returned
    /\ \E i, j \in DOMAIN gp.proof[1].indices :
          /\ i < j
          /\ gp.proof[1].indices[i] >= ReaderBatchLabels
          /\ gp.proof[1].indices[j] < ReaderBatchLabels

\* C13: when the oracle fails for a group of the current range, in any
\* iteration, generate_proof ends with an error: a scan is under way or a
\* proof is returned only if the oracle fails for no group of the range; in
\* the error state no batch was read and no consume call made for the range,
\* the oracle was invoked once per group up to the failing one and not
\* again; and no step follows the error (no retry, no escalation).
C13_PowErrorEndsGenerateProof ==
    /\ [](/\ gp.pc \in {"scan", "done"}
              => RangeGroups(nonces[1], nonces[2]) \cap powFail = {}
          /\ gp.pc = "error"
              => /\ RangeGroups(nonces[1], nonces[2]) \cap powFail # {}
                 /\ gp.reader = <<>> /\ gp.log = {} /\ gp.indexes = <<>>
                 /\ \A w \in Threads : gp.workers[w].st = "idle"
                 /\ powCalls[Len(powCalls)].nonce_group \in powFail
                 /\ \A i \in DOMAIN powCalls :
                        powCalls[i].nonce_group = (nonces[1] \div 16) + i - 1)
    /\ [][gp.pc # "error"]_vars

\* generate_proof ended with an error in a later iteration.
C13_Witness ==
    /\ gp.pc = "error"
    /\ gp.iter >= 1

\* C15: once a worker's prove call has returned a proof, no other worker
\* starts scanning a further chunk of the batch it is in.
C15_NoFurtherChunkAfterSuccess ==
    [][\A w \in Threads :
          (/\ gp.results # {}
           /\ gp.workers[w].st = "proving"
           /\ gp'.workers[w].st = "proving")
          => gp'.workers[w].c = gp.workers[w].c]_vars

----------------------------------------------------------------------------
(* ProvingParams::new and Proof::new *)

\* Variant: the bytes of v, least significant first.
to_little_endian(v, n) == [i \in 1..n |-> (v \div (256 ^ (i - 1))) % 256]

\* U256::to_big_endian into an array of n bytes.
to_big_endian(v, n) == [i \in 1..n |-> (v \div (256 ^ (n - i))) % 256]

\* U256::from_big_endian
RECURSIVE from_big_endian(_)
from_big_endian(bytes) ==
    IF bytes = <<>> THEN 0
    ELSE from_big_endian(SubSeq(bytes, 1, Len(bytes) - 1)) * 256
             + bytes[Len(bytes)]

\* difficulty::proving_difficulty(k1, num_labels): an error without labels
\* or with k1 above their number, else a threshold proportional to
\* k1 / num_labels.
proving_difficulty(k1, num_labels) ==
    IF num_labels = 0 \/ k1 > num_labels THEN [ok |-> FALSE]
    ELSE [ok |-> TRUE, difficulty |-> ((U64 - 1) \div num_labels) * k1]

\* ProvingParams::new(metadata, cfg): a panic (division by zero), an error
\* or the parameters.
ProvingParams_new(metadata, cfg) ==
    LET num_labels == metadata.num_units * metadata.labels_per_unit
    IN  IF metadata.num_units = 0 THEN [st |-> "panic"]
        ELSE LET difficulty_scaled ==
                     from_big_endian(cfg.pow_difficulty) \div metadata.num_units
                 pow_difficulty == to_big_endian(difficulty_scaled, PowBytes)
                 d == proving_difficulty(cfg.k1, num_labels)
             IN  IF ~d.ok THEN [st |-> "err"]
                 ELSE [st |-> "ok",
                       params |-> [difficulty |-> d.difficulty,
                                   pow_difficulty |-> pow_difficulty]]

\* compression::required_bits(num_labels): ceil(log2(num_labels)), the
\* least b with 2^b >= num_labels (0 for no label).
required_bits(num_labels) ==
    IF num_labels <= 1 THEN 0
    ELSE CHOOSE b \in 1..NonceBits :
            2 ^ b >= num_labels /\ 2 ^ (b - 1) < num_labels

\* Variant: the high bits of each index first.
compress_indices_high(indices, bits) ==
    LET stream == [k \in 1..(Len(indices) * bits) |->
                      (indices[((k - 1) \div bits) + 1]
                          \div (2 ^ (bits - 1 - ((k - 1) % bits)))) % 2]
        Bit(k) == IF k <= Len(stream) THEN stream[k] ELSE 0
    IN  [j \in 1..((Len(stream) + 7) \div 8) |->
            Bit(8 * j - 7) + 2 * Bit(8 * j - 6) + 4 * Bit(8 * j - 5)
                + 8 * Bit(8 * j - 4) + 16 * Bit(8 * j - 3) + 32 * Bit(8 * j - 2)
                + 64 * Bit(8 * j - 1) + 128 * Bit(8 * j)]

\* compression::compress_indices(indices, bits): the entries packed with
\* `bits` bits each, low bits first, without separators, into bytes filled
\* from their low bit; the last byte is padded with zeros.
compress_indices(indices, bits) ==
    LET stream == [k \in 1..(Len(indices) * bits) |->
                      (indices[((k - 1) \div bits) + 1]
                          \div (2 ^ ((k - 1) % bits))) % 2]
        Bit(k) == IF k <= Len(stream) THEN stream[k] ELSE 0
    IN  [j \in 1..((Len(stream) + 7) \div 8) |->
            Bit(8 * j - 7) + 2 * Bit(8 * j - 6) + 4 * Bit(8 * j - 5)
                + 8 * Bit(8 * j - 4) + 16 * Bit(8 * j - 3) + 32 * Bit(8 * j - 2)
                + 64 * Bit(8 * j - 1) + 128 * Bit(8 * j)]

\* compression::decompress_indexes(bytes, bits).take(n): the first n entries
\* of the inverse, which yields zeros past the packed data.
RECURSIVE EntryAt(_, _, _, _)
EntryAt(bytes, bits, i, t) ==
    IF t = bits THEN 0
    ELSE LET k == (i - 1) * bits + t
             bit == IF k \div 8 < Len(bytes)
                    THEN (bytes[(k \div 8) + 1] \div (2 ^ (k % 8))) % 2
                    ELSE 0
         IN  bit + 2 * EntryAt(bytes, bits, i, t + 1)

decompress_indexes(bytes, bits, n) ==
    [i \in 1..n |-> EntryAt(bytes, bits, i, 0)]

\* Proof::new(nonce, indices, num_labels, pow): as ProofNew, with the index
\* list packed.
Proof_new(nonce, indices, num_labels, pow) ==
    [nonce |-> nonce,
     indices |-> compress_indices(indices, required_bits(num_labels)),
     pow |-> pow]

MaxUnits == 10
MaxIndices == 3

ByteSamples == {0, 1, 15, 255}

ParamArgs ==
    {[metadata |-> [num_units |-> n, labels_per_unit |-> l],
      cfg |-> [k1 |-> 32, pow_difficulty |-> t]] :
        n \in 0..MaxUnits, l \in {0, 100}, t \in [1..PowBytes -> ByteSamples]}

NumLabelSamples == {0, 1, 2, 5, 8, 9}

IndexLists ==
    UNION {[1..k -> {0, 1, 4, 7, 8}] : k \in 0..MaxIndices}
        \cup {[i \in 1..9 |-> i - 1]}

ProofArgs ==
    {[nonce |-> 7, indices |-> l, num_labels |-> n, pow |-> 77] :
        l \in IndexLists, n \in NumLabelSamples}

\* Intervals [a, b) of u32 nonces, a <= b: those of the test
\* calculating_nonce_group_range and intervals at the top of the u32 range.
IntervalArgs ==
    {r \in {<<a, a + l>> :
                a \in {0, 1, 15, 16, 30, 47, U32 - 40, U32 - 17, U32 - 16, U32 - 1},
                l \in {0, 1, 2, 3, 4, 15, 16, 17, 18, 32}} :
        r[2] < U32}

InitPure ==
    /\ powFail = {}
    /\ powSeed = 0
    /\ nonces = <<0, 0>>
    /\ powCalls = <<>>
    /\ prover = NoProver
    /\ proveArgs = <<>>
    /\ emitted = <<>>
    /\ gp = GpIdle
    /\ params = <<>>
    /\ result = <<>>
    /\ ret = <<>>
    /\ \/ pc = "ProvingParams::new" /\ args \in ParamArgs
       \/ pc = "Proof::new" /\ args \in ProofArgs
       \/ pc = "nonce_group_range" /\ args \in IntervalArgs

ParamsNew ==
    /\ pc = "ProvingParams::new"
    /\ ret' = ProvingParams_new(args.metadata, args.cfg)
    /\ pc' = "params"
    /\ UNCHANGED <<powFail, powSeed, nonces, powCalls, prover, proveArgs,
                   emitted, gp, params, result, args>>

ProofNewCall ==
    /\ pc = "Proof::new"
    /\ ret' = Proof_new(args.nonce, args.indices, args.num_labels, args.pow)
    /\ pc' = "proof"
    /\ UNCHANGED <<powFail, powSeed, nonces, powCalls, prover, proveArgs,
                   emitted, gp, params, result, args>>

\* nonce_group_range(a..b, 16). The sum nonces.end + per_aes - 1 is a u32
\* addition: when it overflows, a build with overflow checks panics and a
\* build without them wraps around.
NonceGroupRangeCall ==
    /\ pc = "nonce_group_range"
    /\ \E build \in IF args[2] + NONCES_PER_AES - 1 >= U32
                     THEN {"wrapping", "checked"} ELSE {"wrapping"} :
          ret' = IF build = "checked" THEN [st |-> "panic"]
                 ELSE [st |-> "ok",
                       range |-> nonce_group_range(args[1], args[2],
                                                   NONCES_PER_AES)]
    /\ pc' = "groups"
    /\ UNCHANGED <<powFail, powSeed, nonces, powCalls, prover, proveArgs,
                   emitted, gp, params, result, args>>

NextPure == ParamsNew \/ ProofNewCall \/ NonceGroupRangeCall

SpecPure == InitPure /\ [][NextPure]_vars

----------------------------------------------------------------------------
(* Properties of ProvingParams::new and Proof::new *)

\* Comparison of two byte arrays of one length, as Rust compares arrays.
LexLess(a, b) ==
    \E i \in DOMAIN a :
        a[i] < b[i] /\ \A j \in 1..(i - 1) : a[j] = b[j]

\* C14 as stated: ProvingParams::new returns pow_difficulty =
\* floor(cfg.pow_difficulty / num_units) as a big-endian integer, equal to
\* cfg.pow_difficulty for num_units = 1 and strictly smaller for
\* num_units > 1, for every target.
C14_PowDifficultyScaled ==
    (pc = "params" /\ ret.st = "ok") =>
        LET n == args.metadata.num_units
            target == args.cfg.pow_difficulty
            scaled == ret.params.pow_difficulty
        IN  /\ Len(scaled) = PowBytes
            /\ from_big_endian(scaled) = from_big_endian(target) \div n
            /\ n = 1 => scaled = target
            /\ n > 1 => LexLess(scaled, target)

\* C14 amended: the same, with "strictly smaller" for num_units > 1 only for
\* a target that is not zero; the target zero is returned unchanged for
\* every num_units >= 1.
C14_PowDifficultyScaledNonZero ==
    (pc = "params" /\ ret.st = "ok") =>
        LET n == args.metadata.num_units
            target == args.cfg.pow_difficulty
            scaled == ret.params.pow_difficulty
            zero == [i \in 1..PowBytes |-> 0]
        IN  /\ Len(scaled) = PowBytes
            /\ from_big_endian(scaled) = from_big_endian(target) \div n
            /\ n = 1 => scaled = target
            /\ (n > 1 /\ target # zero) => LexLess(scaled, target)
            /\ target = zero => scaled = zero

\* The target [0x0F; ..] of the test scaled for 10 units.
C14_Witness ==
    /\ pc = "params"
    /\ ret.st = "ok"
    /\ args.metadata.num_units = 10
    /\ args.cfg.pow_difficulty = [i \in 1..PowBytes |-> 15]
    /\ ret.params.pow_difficulty[1] = 1

\* ceil(log2(n)): the least b with 2^b >= n.
CeilLog2(n) ==
    CHOOSE b \in 0..NonceBits : 2 ^ b >= n /\ \A c \in 0..(b - 1) : 2 ^ c < n

\* C17: Proof::new stores nonce and pow unchanged, and for an index list
\* whose entries are all below num_labels, the first len(indices) entries
\* decompressed from the stored indices with ceil(log2(num_labels)) bits per
\* entry are the original list, in order.
C17_ProofRoundTrip ==
    pc = "proof" =>
        /\ ret.nonce = args.nonce
        /\ ret.pow = args.pow
        /\ (\A i \in DOMAIN args.indices : args.indices[i] < args.num_labels)
              => decompress_indexes(ret.indices, CeilLog2(args.num_labels),
                                    Len(args.indices)) = args.indices

\* A proof of three indices of three bits each, the last one packed across
\* two bytes.
C17_Witness ==
    /\ pc = "proof"
    /\ args.num_labels = 5
    /\ args.indices = <<4, 1, 4>>
    /\ Len(ret.indices) = 2
    /\ ret.indices[2] = 1

----------------------------------------------------------------------------
(* Further properties of Prover8_56::new and Prover8_56::prove *)

\* The number of oracle invocations for a range: all its groups, or those up
\* to the first one the oracle fails for.
ExpectedPowCalls(start, end) ==
    LET groups == RangeGroups(start, end)
        failing == groups \cap powFail
    IN  IF failing = {} THEN Cardinality(groups)
        ELSE (CHOOSE g \in failing : \A h \in failing : g <= h)
                 - (start \div 16) + 1

SplitSamples ==
    {0, 1, LSB_MASK, LSB_MASK + 1, 51 * (2 ^ LsbBits) + 4, U64 - LSB_MASK - 1,
     U64 - 1}

\* The pairs (nonce, index) of the full chunks of a batch whose value
\* u * 2^56 + y is below the difficulty D: u the byte of the primary cipher
\* of the nonce's group, y the low 56 bits of the secondary word.
BelowD(p, batch, base, D) ==
    {<<16 * g + j, base + l>> :
        <<g, j, l>> \in {t \in ProverGroups(p) \X (0..15) \X FullLabels(batch) :
            EncryptByte(PrimaryOf(p, t[1]), batch[t[3] + 1], t[2]) * (2 ^ LsbBits)
                + LsbOf(p, batch[t[3] + 1], 16 * t[1] + t[2]) < D}}

\* C18: split_difficulty(D) = (msb, lsb) has lsb < 2^56 and
\* msb * 2^56 + lsb = D, and prove emits a (label, nonce) pair exactly when
\* u * 2^56 + y < D, strictly: nothing is emitted for D = 0.
C18_TwoStageIsOneComparison ==
    /\ \A D \in SplitSamples :
          /\ split_difficulty(D)[2] < 2 ^ LsbBits
          /\ split_difficulty(D)[1] * (2 ^ LsbBits) + split_difficulty(D)[2] = D
    /\ Built =>
          /\ prover.difficulty_lsb < 2 ^ LsbBits
          /\ prover.difficulty_msb * (2 ^ LsbBits) + prover.difficulty_lsb
                = params[2].difficulty
    /\ pc = "proved" =>
          /\ Elems(Pairs)
                = BelowD(prover, proveArgs[1], proveArgs[2], params[2].difficulty)
          /\ params[2].difficulty = 0 => emitted = <<>>

\* A scan in which, of the pairs whose primary byte equals the top byte of
\* D, one was emitted by check_lsb and another was not emitted.
C18_Witness ==
    /\ pc = "proved"
    /\ \E e \in Elems(emitted) : e.lsb
    /\ \E g \in ProverGroups(prover), j \in 0..15, l \in FullLabels(proveArgs[1]) :
          /\ EncryptByte(PrimaryOf(prover, g), proveArgs[1][l + 1], j)
                = prover.difficulty_msb
          /\ <<16 * g + j, proveArgs[2] + l>> \notin Elems(Pairs)

\* C19: every pair (n, idx) passed to consume has start <= n < end and
\* base_index <= idx < base_index + 8 * floor(batch_len / 128), batch_len in
\* bytes: the labels of a trailing partial chunk are never emitted.
C19_CallsWithinRangeAndFullChunks ==
    pc = "proved" =>
        \A e \in Elems(emitted) :
            /\ nonces[1] <= e.nonce /\ e.nonce < nonces[2]
            /\ proveArgs[2] <= e.index
            /\ e.index < proveArgs[2] + 8 * ((16 * Len(proveArgs[1])) \div 128)

\* A scan of a batch of one full chunk and three more labels, for a range
\* of several groups that does not start at 0, with a non-zero base index.
C19_Witness ==
    /\ pc = "proved"
    /\ Len(proveArgs[1]) = 11
    /\ proveArgs[2] > 0
    /\ nonces[1] > 0
    /\ nonces[2] - nonces[1] >= 32
    /\ \E e \in Elems(emitted) : e.index = proveArgs[2] + 7

\* C20: within one prove call the indices passed to consume for a nonce are
\* strictly increasing, so no (nonce, index) pair is passed twice.
C20_IndicesIncreasePerNonce ==
    pc = "proved" =>
        \A n \in nonces[1]..(nonces[2] - 1) :
            LET idx == IndicesOf(emitted, Len(emitted), n)
            IN  \A i \in 1..(Len(idx) - 1) : idx[i] < idx[i + 1]

\* A scan for several groups in which a nonce of the last group was passed
\* indices of both chunks of the batch.
C20_Witness ==
    /\ pc = "proved"
    /\ nonces[2] - nonces[1] >= 32
    /\ prover.difficulty_msb < 255
    /\ \E n \in (nonces[2] - 16)..(nonces[2] - 1) :
          LET idx == IndicesOf(emitted, Len(emitted), n)
          IN  /\ Len(idx) >= 2
              /\ idx[1] < proveArgs[2] + 8
              /\ idx[Len(idx)] >= proveArgs[2] + 8

----------------------------------------------------------------------------
(* Properties of nonce_group_range *)

\* C22: for every u32 interval [a, b) with a <= b, nonce_group_range returns
\* [a/16, max(a/16 + 1, (b + 15)/16)): it is not empty, it holds the group
\* n/16 of every nonce n of [a, b), and for a < b no group beyond the one of
\* nonce b - 1; up to the top of the u32 range.
C22_GroupRangeCoversInterval ==
    pc = "groups" =>
        LET a == args[1]
            b == args[2]
        IN  /\ ret.st = "ok"
            /\ ret.range = <<a \div 16, Max((a \div 16) + 1, (b + 15) \div 16)>>
            /\ ret.range[1] < ret.range[2]
            /\ \A n \in a..(b - 1) :
                   ret.range[1] <= n \div 16 /\ n \div 16 < ret.range[2]
            /\ a < b => ret.range[2] = ((b - 1) \div 16) + 1

----------------------------------------------------------------------------
(* Properties of the escalation of generate_proof *)

\* C21: generate_proof with per-iteration nonce count N tries the ranges
\* [0, N), [N, 2N), ... in order (iteration i has the range
\* [i * N, (i + 1) * N)), each with a new prover and a new, empty
\* accumulator: what the accumulator holds was emitted for nonces of the
\* current range, and the nonce of a returned proof is in the range of the
\* iteration that returned it.
C21_RangesInOrderNewAccumulator ==
    /\ <<gp.start_nonce, gp.end_nonce>>
          = <<gp.iter * gp.nonces, (gp.iter + 1) * gp.nonces>>
    /\ gp.pc \in {"scan", "done", "error"}
          => nonces = <<gp.iter * gp.nonces, (gp.iter + 1) * gp.nonces>>
    /\ gp.pc \in {"scan", "done"}
          => /\ \A c \in Elems(prover.ciphers) :
                   c.nonce_group \in RangeGroups(gp.start_nonce, gp.end_nonce)
             /\ \A m \in DOMAIN gp.indexes :
                   /\ gp.start_nonce <= m /\ m < gp.end_nonce
                   /\ \A i \in Elems(gp.indexes[m]) : <<m, i>> \in gp.log
    /\ Returned
          => /\ gp.iter * gp.nonces <= gp.proof[1].nonce
             /\ gp.proof[1].nonce < (gp.iter + 1) * gp.nonces

====
